---- MODULE Spec2Model ----
(***************************************************************************)
(* Model of pp/mdp/mdp.py: the abstract MDP holder and the GridWorldMDP    *)
(* transition / reward engine.                                             *)
(*                                                                         *)
(* Engines are Python objects; the numpy reward matrix of an engine is a   *)
(* mutable array that the engine only references, so the matrices live in  *)
(* a heap and an engine's `rewards` field is a reference into it.          *)
(* A float is written symbolically: -inf, or n, or n*sqrt(2).              *)
(***************************************************************************)
EXTENDS Integers, Sequences, FiniteSets, TLC

VARIABLES args, engines, heap, call

vars == <<args, engines, heap, call>>

\* ---------------------------------------------------------------- bounds
MaxRows == 2
MaxCols == 2
MaxEngines == 2
MaxOverrides == 1

\* ---------------------------------------------------------------- values
None == <<>>
Some(x) == <<x>>

Real(n) == [inf |-> FALSE, n |-> n, sqrt2 |-> FALSE]
NegInf == [inf |-> TRUE, n |-> 0, sqrt2 |-> FALSE]

\* np.multiply(col, np.sqrt(2), out=col), one entry
np_multiply_sqrt2(v) ==
    IF v.inf \/ v.n = 0 THEN v ELSE [v EXCEPT !.sqrt2 = TRUE]

\* ---------------------------------------------------------------- Actions
UP == 0
DOWN == 1
LEFT == 2
RIGHT == 3
UP_LEFT == 4
UP_RIGHT == 5
DOWN_LEFT == 6
DOWN_RIGHT == 7
ABSORB == 8

Actions == {UP, DOWN, LEFT, RIGHT, UP_LEFT, UP_RIGHT, DOWN_LEFT, DOWN_RIGHT, ABSORB}

diagonal_actions == {UP_LEFT, UP_RIGHT, DOWN_LEFT, DOWN_RIGHT}

\* ---------------------------------------------------------------- MDP
\* What a call comes to: a returned value, or the exception it raised.
Raise(exc) == [raised |-> TRUE, exc |-> exc, val |-> <<>>]
Return(v) == [raised |-> FALSE, exc |-> "", val |-> v]

AssertionError == Raise("AssertionError")
BaseException == Raise("BaseException")
IndexError == Raise("IndexError")

\* numpy's index along an axis of length n: i in [0, n) as it is, i in
\* [-n, 0) counted from the end, anything else an IndexError
np_index(n, i) ==
    IF 0 <= i /\ i < n THEN Return(i)
    ELSE IF 0 - n <= i /\ i < 0 THEN Return(i + n)
    ELSE IndexError

isinstance_int(x) == x.type = "int"

\* MDP.__init__: S and A are typed values, shape is rewards.shape,
\* is_callable is callable(transition).
MDP_init(S, A, shape, is_callable) ==
    IF ~isinstance_int(S) THEN AssertionError
    ELSE IF ~isinstance_int(A) THEN AssertionError
    ELSE IF shape # <<S.val, A.val>> THEN AssertionError
    ELSE IF ~is_callable THEN AssertionError
    ELSE Return([S |-> S.val, A |-> A.val, shape |-> shape, transition |-> is_callable])

\* ---------------------------------------------------------------- coordinates
coor_to_state(self, r, c) ==
    IF ~(0 <= r /\ r < self.rows) THEN AssertionError
    ELSE IF ~(0 <= c /\ c < self.cols) THEN AssertionError
    ELSE Return(r * self.cols + c)

state_to_coor(self, s) ==
    IF ~(s < self.rows * self.cols) THEN AssertionError
    ELSE Return(<<s \div self.cols, s % self.cols>>)

\* ---------------------------------------------------------------- transition
\* Variant of the offset chain with the UP and DOWN offsets exchanged.
candidate_updown(r, c, a) ==
    IF a = LEFT THEN Return(<<r - 1, c>>)
    ELSE IF a = RIGHT THEN Return(<<r + 1, c>>)
    ELSE IF a = DOWN THEN Return(<<r, c + 1>>)
    ELSE IF a = UP THEN Return(<<r, c - 1>>)
    ELSE IF a = UP_LEFT THEN Return(<<r - 1, c + 1>>)
    ELSE IF a = UP_RIGHT THEN Return(<<r + 1, c + 1>>)
    ELSE IF a = DOWN_LEFT THEN Return(<<r - 1, c - 1>>)
    ELSE IF a = DOWN_RIGHT THEN Return(<<r + 1, c - 1>>)
    ELSE IF a = ABSORB THEN Return(<<r, c>>)
    ELSE BaseException

\* _transition_helper, the if/elif chain: (r_prime, c_prime) for action a,
\* `pass` for ABSORB and `raise BaseException` for anything else
candidate(r, c, a) ==
    IF a = LEFT THEN Return(<<r - 1, c>>)
    ELSE IF a = RIGHT THEN Return(<<r + 1, c>>)
    ELSE IF a = DOWN THEN Return(<<r, c - 1>>)
    ELSE IF a = UP THEN Return(<<r, c + 1>>)
    ELSE IF a = UP_LEFT THEN Return(<<r - 1, c + 1>>)
    ELSE IF a = UP_RIGHT THEN Return(<<r + 1, c + 1>>)
    ELSE IF a = DOWN_LEFT THEN Return(<<r - 1, c - 1>>)
    ELSE IF a = DOWN_RIGHT THEN Return(<<r + 1, c - 1>>)
    ELSE IF a = ABSORB THEN Return(<<r, c>>)
    ELSE BaseException

\* _transition_helper, the legality test on (r_prime, c_prime)
illegal_move(self, cand, a) ==
    \/ cand[1] < 0 \/ cand[1] >= self.rows
    \/ cand[2] < 0 \/ cand[2] >= self.cols
    \/ (self.disallow_diag /\ a \in diagonal_actions)

\* return s_prime, illegal -- unless coor_to_state raised
with_illegal(encoded, illegal) ==
    IF encoded.raised THEN encoded ELSE Return(<<encoded.val, illegal>>)

\* _transition_helper, the tail: an illegal move falls back to (r, c), and
\* coor_to_state encodes the cell moved to
settle(self, rc, cand, illegal) ==
    with_illegal(coor_to_state(self, IF illegal THEN rc[1] ELSE cand[1],
                                     IF illegal THEN rc[2] ELSE cand[2]),
                 illegal)

move_from(self, rc, cand, a) == settle(self, rc, cand, illegal_move(self, cand, a))

\* the steps after the if/elif chain, which may have raised
move_to(self, rc, chosen, a) ==
    IF chosen.raised THEN chosen ELSE move_from(self, rc, chosen.val, a)

\* assert a >= 0 and a < len(self.Actions), then the chain and the tail
decoded_move(self, rc, a) ==
    IF ~(a >= 0 /\ a < Cardinality(Actions)) THEN AssertionError
    ELSE move_to(self, rc, candidate(rc[1], rc[2], a), a)

\* the steps after r, c = self.state_to_coor(s), which may have raised
move_at(self, decoded, a) ==
    IF decoded.raised THEN decoded ELSE decoded_move(self, decoded.val, a)

\* _transition_helper(s, a, alert_illegal=True): <<s_prime, illegal>> or the
\* exception raised on the way
_transition_helper(self, s, a) == move_at(self, state_to_coor(self, s), a)

\* ---------------------------------------------------------------- heap
EmptyHeap == <<>>

Alloc(h) == CHOOSE n \in 1..(Cardinality(DOMAIN h) + 1) :
                /\ n \notin DOMAIN h
                /\ \A m \in 1..(n - 1) : m \in DOMAIN h

Store(h, ref, arr) == [x \in (DOMAIN h) \cup {ref} |-> IF x = ref THEN arr ELSE h[x]]

\* Variant of np_copy that hands back the same array (cp.rewards = self.rewards).
np_copy_alias(h, ref) == [heap |-> h, ref |-> ref]

\* np.copy(arr): a fresh array with the same contents
np_copy(h, ref) == [heap |-> Store(h, Alloc(h), h[ref]), ref |-> Alloc(h)]

\* arrays no engine references any more are reclaimed
Collect(h, engs) ==
    [x \in {engs[i].rewards : i \in DOMAIN engs} |-> h[x]]

\* ---------------------------------------------------------------- goals
\* rewards[:, ABSORB].fill(v)
fill_absorb(arr, v) == [s \in DOMAIN arr |-> [arr[s] EXCEPT ![ABSORB] = v]]

\* arr[i, ABSORB] = 0 at the row the index came to, or its IndexError
mark_row(arr, row) ==
    IF row.raised THEN row ELSE Return([arr EXCEPT ![row.val][ABSORB] = Real(0)])

\* if goal_state != None: rewards[goal_state, ABSORB] = 0
mark_goal(arr, goal_state) ==
    IF goal_state # None
    THEN mark_row(arr, np_index(Cardinality(DOMAIN arr), goal_state[1]))
    ELSE Return(arr)

\* What set_goal leaves behind: self.goal is set and the column holds
\* `filled`; the goal's row is marked unless indexing it raised.
goal_set(h, self, goal_state, filled, marked) ==
    [raised |-> marked.raised, exc |-> marked.exc,
     heap |-> [h EXCEPT ![self.rewards] = IF marked.raised THEN filled ELSE marked.val],
     self |-> [self EXCEPT !.goal = goal_state]]

mark_filled(h, self, goal_state, filled) ==
    goal_set(h, self, goal_state, filled, mark_goal(filled, goal_state))

\* Variant of set_goal that marks the new goal without refilling the column.
set_goal_nofill(h, self, goal_state) ==
    mark_filled(h, self, goal_state, h[self.rewards])

set_goal(h, self, goal_state) ==
    mark_filled(h, self, goal_state,
                fill_absorb(h[self.rewards], IF self.allow_wait
                                             THEN Real(self.default_reward)
                                             ELSE NegInf))

\* Variant of set_all_goals that fills the whole matrix (self.rewards.fill(0)).
set_all_goals_matrix(h, self) ==
    [heap |-> [h EXCEPT ![self.rewards] =
                  [s \in DOMAIN @ |-> [a \in 0..(self.A - 1) |-> Real(0)]]],
     self |-> self]

set_all_goals(h, self) ==
    [heap |-> [h EXCEPT ![self.rewards] = fill_absorb(@, Real(0))],
     self |-> self]

\* ---------------------------------------------------------------- construction
\* assert rows > 0, assert cols > 0, then the fields set before the loop.
\* rows and cols are integers here, so the two isinstance asserts pass.
NewEngine(rows, cols, default_reward, allow_wait, disallow_diag) ==
    IF ~(rows > 0) THEN AssertionError
    ELSE IF ~(cols > 0) THEN AssertionError
    ELSE Return([rows |-> rows, cols |-> cols, S |-> rows * cols,
                 A |-> Cardinality(Actions), default_reward |-> default_reward,
                 allow_wait |-> allow_wait, disallow_diag |-> disallow_diag])

\* What one iteration of the double loop of __init__ works with:
\* <<s, a, s_prime, illegal>>.
visit(s, a, res) == <<s, a, res[1], res[2]>>

\* The iterations in the order the loop runs them:
\* for s in xrange(S): for a in xrange(A): s_prime, illegal = _transition_helper(s, a)
Visits(self) ==
    [k \in 1..(self.S * self.A) |->
        visit((k - 1) \div self.A, (k - 1) % self.A,
              _transition_helper(self, (k - 1) \div self.A, (k - 1) % self.A).val)]

\* transition_cached[s, a] = s_prime
TransitionCached(self, visits) ==
    [s \in 0..(self.S - 1) |-> [a \in 0..(self.A - 1) |-> visits[a + s * self.A + 1][3]]]

\* transition_cached_l[a + s*A] = s_prime
TransitionCachedL(self, visits) == [k \in 1..(self.S * self.A) |-> visits[k][3]]

\* rewards[s, a] as the loop leaves it: the rewards.fill(default_reward) value,
\* the override of the coordinate of s_prime, or -inf for an illegal move
loop_reward(self, reward_dict, s_prime, illegal) ==
    IF ~illegal
    THEN IF state_to_coor(self, s_prime).val \in DOMAIN reward_dict
         THEN Real(reward_dict[state_to_coor(self, s_prime).val])
         ELSE Real(self.default_reward)
    ELSE NegInf

LoopRewards(self, reward_dict, visits) ==
    [s \in 0..(self.S - 1) |->
        [a \in 0..(self.A - 1) |->
            loop_reward(self, reward_dict, visits[a + s * self.A + 1][3],
                        visits[a + s * self.A + 1][4])]]

\* the pairs appended for a list of iterations: (a, s_prime) / (a, s)
forward_pairs(vs) == [i \in DOMAIN vs |-> <<vs[i][2], vs[i][3]>>]

reverse_pairs(vs) == [i \in DOMAIN vs |-> <<vs[i][2], vs[i][1]>>]

\* neighbors[s].append((a, s_prime)) for each legal (s, a), in loop order
Neighbors(self, visits) ==
    [s \in 0..(self.S - 1) |->
        LET appended(v) == v[1] = s /\ ~v[4]
        IN  forward_pairs(SelectSeq(visits, appended))]

\* Variant that files the reverse pair under s instead of s_prime.
ReverseNeighbors_at_s(self, visits) ==
    [t \in 0..(self.S - 1) |->
        LET appended(v) == v[1] = t /\ ~v[4]
        IN  reverse_pairs(SelectSeq(visits, appended))]

\* reverse_neighbors[s_prime].append((a, s)) for each legal (s, a), in loop order
ReverseNeighbors(self, visits) ==
    [t \in 0..(self.S - 1) |->
        LET appended(v) == v[3] = t /\ ~v[4]
        IN  reverse_pairs(SelectSeq(visits, appended))]

\* Variant of the scaling that runs over every movement column.
EuclideanScale_all_moves(rewards, euclidean_rewards) ==
    IF euclidean_rewards
    THEN [s \in DOMAIN rewards |->
            [a \in DOMAIN rewards[s] |->
                IF a # ABSORB THEN np_multiply_sqrt2(rewards[s][a])
                ELSE rewards[s][a]]]
    ELSE rewards

\* if euclidean_rewards: scale the diagonal columns
EuclideanScale(rewards, euclidean_rewards) ==
    IF euclidean_rewards
    THEN [s \in DOMAIN rewards |->
            [a \in DOMAIN rewards[s] |->
                IF a \in diagonal_actions THEN np_multiply_sqrt2(rewards[s][a])
                ELSE rewards[s][a]]]
    ELSE rewards

\* self.state_rewards
StateRewards(self, reward_dict) ==
    [s \in 0..(self.S - 1) |->
        IF \E rc \in DOMAIN reward_dict : coor_to_state(self, rc[1], rc[2]).val = s
        THEN reward_dict[CHOOSE rc \in DOMAIN reward_dict :
                            coor_to_state(self, rc[1], rc[2]).val = s]
        ELSE self.default_reward]

\* The engine once the loop is done and MDP.__init__ has run (base).
Engine(self, reward_dict, ref, base, visits) ==
    [rows |-> self.rows, cols |-> self.cols, S |-> base.S, A |-> base.A,
     default_reward |-> self.default_reward,
     allow_wait |-> self.allow_wait, disallow_diag |-> self.disallow_diag,
     neighbors |-> Neighbors(self, visits),
     reverse_neighbors |-> ReverseNeighbors(self, visits),
     transition_cached |-> TransitionCached(self, visits),
     transition_cached_l |-> TransitionCachedL(self, visits),
     state_rewards |-> StateRewards(self, reward_dict),
     rewards |-> ref,
     goal |-> None]

\* __init__ raised: there is no object, and the heap is as it was
Failed(h, exc) == [raised |-> TRUE, exc |-> exc, heap |-> h, self |-> <<>>]

\* self.set_goal(goal_state) as the last step of __init__
constructed(h, res) == IF res.raised THEN Failed(h, res.exc) ELSE res

\* The loop's tables, the scaling, super().__init__, state_rewards (whose
\* coor_to_state raises on a key off the grid), set_goal.
Install(h, self, reward_dict, goal_state, euclidean_rewards, visits) ==
    IF \E rc \in DOMAIN reward_dict : coor_to_state(self, rc[1], rc[2]).raised
    THEN Failed(h, AssertionError.exc)
    ELSE constructed(h,
             set_goal(Store(h, Alloc(h),
                            EuclideanScale(LoopRewards(self, reward_dict, visits),
                                           euclidean_rewards)),
                      Engine(self, reward_dict, Alloc(h),
                             MDP_init([type |-> "int", val |-> self.S],
                                      [type |-> "int", val |-> self.A],
                                      <<self.S, self.A>>, TRUE).val,
                             visits),
                      goal_state))

Build(h, self, reward_dict, goal_state, euclidean_rewards) ==
    Install(h, self, reward_dict, goal_state, euclidean_rewards, Visits(self))

\* the body of __init__ after its four asserts
checked(h, fields, reward_dict, goal_state, euclidean_rewards) ==
    IF fields.raised THEN Failed(h, fields.exc)
    ELSE Build(h, fields.val, reward_dict, goal_state, euclidean_rewards)

\* GridWorldMDP.__init__
GridWorldMDP(h, rows, cols, reward_dict, goal_state, default_reward, euclidean_rewards, allow_wait, disallow_diag) ==
    checked(h, NewEngine(rows, cols, default_reward, allow_wait, disallow_diag),
            reward_dict, goal_state, euclidean_rewards)

\* cp.rewards = <the copied array>
rebind(cp, copied) == [heap |-> copied.heap, self |-> [cp EXCEPT !.rewards = copied.ref]]

copy_rewards(self, built) == rebind(built.self, np_copy(built.heap, self.rewards))

\* GridWorldMDP.copy
copy(h, self) ==
    copy_rewards(self, GridWorldMDP(h, self.rows, self.cols, <<>>, None, -1, TRUE, FALSE, FALSE))

\* transition_cached[s, a] at the two indices numpy came to
cached_at(self, row, col) ==
    IF row.raised THEN row
    ELSE IF col.raised THEN col
    ELSE Return(self.transition_cached[row.val][col.val])

\* GridWorldMDP._transition: return self.transition_cached[s, a]
_transition(self, s, a) == cached_at(self, np_index(self.S, s), np_index(self.A, a))

\* ---------------------------------------------------------------- inputs
DefaultRewards == {-1, 0}
OverrideValues == {10}

\* the cells an override is put on: the first and the last cell of the grid
OverrideKeys(rows, cols) == {<<0, 0>>, <<rows - 1, cols - 1>>}

\* reward_dict: at most MaxOverrides of those cells, each with a value
RewardDicts(rows, cols) ==
    UNION { [K -> OverrideValues] :
              K \in {X \in SUBSET OverrideKeys(rows, cols) : Cardinality(X) <= MaxOverrides} }

GoalArgs(S) == {None} \cup {Some(s) : s \in 0..(S - 1)}

\* no goal, the first state, the last state
EndGoalArgs(S) == {None, Some(0), Some(S - 1)}

\* goals that are not states: -1, which numpy counts from the end, and S,
\* which no row has
OffGoalArgs(S) == {Some(0 - 1), Some(S)}

AnyGoalArgs(S) == GoalArgs(S) \cup OffGoalArgs(S)

NoCall == [op |-> "none", args |-> <<>>, result |-> Return(<<>>)]

Params ==
    UNION { UNION { [rows : {r}, cols : {c}, reward_dict : RewardDicts(r, c),
                     goal_state : EndGoalArgs(r * c), default_reward : DefaultRewards,
                     euclidean_rewards : BOOLEAN, allow_wait : BOOLEAN,
                     disallow_diag : BOOLEAN] : c \in 1..MaxCols } : r \in 1..MaxRows }

Construct(p) ==
    GridWorldMDP(EmptyHeap, p.rows, p.cols, p.reward_dict, p.goal_state,
                 p.default_reward, p.euclidean_rewards, p.allow_wait, p.disallow_diag)

Init ==
    \E p \in Params : \E built \in {Construct(p)} :
        /\ args = p
        /\ engines = <<built.self>>
        /\ heap = built.heap
        /\ call = NoCall

\* ---------------------------------------------------------------- operations
\* set_goal(g); when it raises, what it had done by then stays done
SetGoal(e, g) ==
    \E res \in {set_goal(heap, engines[e], g)} :
        /\ engines' = [engines EXCEPT ![e] = res.self]
        /\ heap' = res.heap
        /\ UNCHANGED <<args, call>>

SetAllGoals(e) ==
    \E res \in {set_all_goals(heap, engines[e])} :
        /\ engines' = [engines EXCEPT ![e] = res.self]
        /\ heap' = res.heap
        /\ UNCHANGED <<args, call>>

Copy(e) ==
    /\ Len(engines) < MaxEngines
    /\ \E res \in {copy(heap, engines[e])} :
        /\ engines' = Append(engines, res.self)
        /\ heap' = Collect(res.heap, Append(engines, res.self))
    /\ UNCHANGED <<args, call>>

DoSetGoal == \E e \in DOMAIN engines : \E g \in AnyGoalArgs(engines[e].S) : SetGoal(e, g)
DoSetEndGoal == \E e \in DOMAIN engines : \E g \in EndGoalArgs(engines[e].S) : SetGoal(e, g)
DoSetAllGoals == \E e \in DOMAIN engines : SetAllGoals(e)
DoCopy == \E e \in DOMAIN engines : Copy(e)

\* Construction followed by goal reconfiguration of the constructed engine.
Next == DoSetGoal \/ DoSetAllGoals

Spec == Init /\ [][Next]_vars

\* The same with copy().  The source is built without a construction-time
\* goal (__init__ installs one by calling set_goal, so DoSetGoal reaches those
\* engines) and without overrides, with the movement flags either all at
\* their defaults or all changed, and with any allow_wait and default_reward.
\* Goals are then set on the source and on the copies from EndGoalArgs.
InitCopy ==
    /\ Init
    /\ args.goal_state = None
    /\ args.reward_dict = <<>>
    /\ args.euclidean_rewards = ~args.disallow_diag

NextCopy == DoSetEndGoal \/ DoSetAllGoals \/ DoCopy

SpecCopy == InitCopy /\ [][NextCopy]_vars

\* ---------------------------------------------------------------- queries
\* One call of a pure query method on the constructed engine; `call`
\* records the arguments and what the call returned or raised.
Slack == 2

CallCoorToState(r, c) ==
    /\ call = NoCall
    /\ call' = [op |-> "coor_to_state", args |-> <<r, c>>,
                result |-> coor_to_state(engines[1], r, c)]
    /\ UNCHANGED <<args, engines, heap>>

CallStateToCoor(s) ==
    /\ call = NoCall
    /\ call' = [op |-> "state_to_coor", args |-> <<s>>,
                result |-> state_to_coor(engines[1], s)]
    /\ UNCHANGED <<args, engines, heap>>

CallTransitionHelper(s, a) ==
    /\ call = NoCall
    /\ call' = [op |-> "_transition_helper", args |-> <<s, a>>,
                result |-> _transition_helper(engines[1], s, a)]
    /\ UNCHANGED <<args, engines, heap>>

CallTransition(s, a) ==
    /\ call = NoCall
    /\ call' = [op |-> "_transition", args |-> <<s, a>>,
                result |-> _transition(engines[1], s, a)]
    /\ UNCHANGED <<args, engines, heap>>

DoCoorToState ==
    \E r \in (0 - Slack)..(engines[1].rows + Slack - 1) :
        \E c \in (0 - Slack)..(engines[1].cols + Slack - 1) : CallCoorToState(r, c)
DoStateToCoor ==
    \E s \in (0 - Slack)..(engines[1].S + Slack - 1) : CallStateToCoor(s)
DoTransitionHelper ==
    \E s \in (0 - Slack)..(engines[1].S + Slack - 1) :
        \E a \in (0 - Slack)..(engines[1].A + Slack - 1) : CallTransitionHelper(s, a)
DoTransition ==
    \E s \in (0 - Slack)..(engines[1].S + Slack - 1) :
        \E a \in (0 - Slack)..(engines[1].A + Slack - 1) : CallTransition(s, a)

InitCall == Init /\ args.goal_state = None /\ args.reward_dict = <<>>

NextCall == DoCoorToState \/ DoStateToCoor \/ DoTransitionHelper \/ DoTransition

SpecCall == InitCall /\ [][NextCall]_vars

\* ---------------------------------------------------------------- abstract MDP
\* Direct construction of the abstract MDP from caller-supplied values.
MaxDim == 2

Typed == [type : {"int", "float"}, val : (0 - 1)..MaxDim]
Shapes == (0..MaxDim) \X (0..MaxDim)

CallMDP(S, A, shape, is_callable) ==
    /\ call = NoCall
    /\ call' = [op |-> "MDP", args |-> <<S, A, shape, is_callable>>,
                result |-> MDP_init(S, A, shape, is_callable)]
    /\ UNCHANGED <<args, engines, heap>>

DoMDP ==
    \E S \in Typed : \E A \in Typed : \E shape \in Shapes :
        \E is_callable \in BOOLEAN : CallMDP(S, A, shape, is_callable)

InitMDP ==
    /\ args = <<>>
    /\ engines = <<>>
    /\ heap = EmptyHeap
    /\ call = NoCall

SpecMDP == InitMDP /\ [][DoMDP]_vars

\* ================================================================ properties
\* Vocabulary of the statements below, independent of the code's tables.
States(self) == 0..(self.rows * self.cols - 1)

Decode(self, s) == <<s \div self.cols, s % self.cols>>

Offset(a) ==
    CASE a = UP -> <<0, 1>>
      [] a = DOWN -> <<0, -1>>
      [] a = LEFT -> <<-1, 0>>
      [] a = RIGHT -> <<1, 0>>
      [] a = UP_LEFT -> <<-1, 1>>
      [] a = UP_RIGHT -> <<1, 1>>
      [] a = DOWN_LEFT -> <<-1, -1>>
      [] a = DOWN_RIGHT -> <<1, -1>>
      [] a = ABSORB -> <<0, 0>>

Diagonal(a) == Offset(a)[1] # 0 /\ Offset(a)[2] # 0

Candidate(self, s, a) ==
    <<Decode(self, s)[1] + Offset(a)[1], Decode(self, s)[2] + Offset(a)[2]>>

InGrid(self, rc) ==
    /\ 0 <= rc[1] /\ rc[1] < self.rows
    /\ 0 <= rc[2] /\ rc[2] < self.cols

IllegalMove(self, s, a) ==
    \/ ~InGrid(self, Candidate(self, s, a))
    \/ (Diagonal(a) /\ self.disallow_diag)

Rewards(e) == heap[engines[e].rewards]

Count(seq, x) == Cardinality({i \in DOMAIN seq : seq[i] = x})

\* ---------------------------------------------------------------- C1
TransitionOK(self, s, a, s_prime) ==
    /\ s_prime \in States(self)
    /\ IllegalMove(self, s, a) => s_prime = s
    /\ ~IllegalMove(self, s, a) => Decode(self, s_prime) = Candidate(self, s, a)

\* the call was made with a state of the grid and one of the 9 actions
OnGrid == call.args[1] \in States(engines[1]) /\ call.args[2] \in Actions

\* C1: for every state s and action a of the grid, the move is flagged illegal
\* exactly when the candidate cell is off the grid or the action is diagonal
\* with disallow_diag set; an illegal move returns s, a legal one returns the
\* state whose coordinate is decode(s) plus the action's offset; the result is
\* always a state of the grid (both for the helper and the cached transition),
\* and neither call raises.
C1_Transition ==
    /\ (call.op = "_transition_helper" /\ OnGrid) =>
         /\ ~call.result.raised
         /\ call.result.val[2] = IllegalMove(engines[1], call.args[1], call.args[2])
         /\ TransitionOK(engines[1], call.args[1], call.args[2], call.result.val[1])
    /\ (call.op = "_transition" /\ OnGrid) =>
         /\ ~call.result.raised
         /\ TransitionOK(engines[1], call.args[1], call.args[2], call.result.val)

C1_Witness ==
    /\ call.op = "_transition_helper"
    /\ OnGrid
    /\ ~call.result.raised
    /\ call.args[2] = UP_LEFT
    /\ call.result.val[2] = FALSE
    /\ call.result.val[1] # call.args[1]
    /\ Decode(engines[1], call.result.val[1]) =
         <<Decode(engines[1], call.args[1])[1] - 1, Decode(engines[1], call.args[1])[2] + 1>>

\* ---------------------------------------------------------------- C2
Elements(seq) == {seq[i] : i \in DOMAIN seq}

\* the legal moves of a grid, as <<s, a, transition(s,a)>>
LegalMoves(self) ==
    {<<p[1], p[2], _transition(self, p[1], p[2]).val>> :
        p \in {q \in States(self) \X Actions : ~IllegalMove(self, q[1], q[2])}}

IllegalMoves(self) == {q \in States(self) \X Actions : IllegalMove(self, q[1], q[2])}

AdjacencyOK(self, legal, illegal) ==
    /\ \A s \in States(self) :
          /\ Elements(self.neighbors[s]) = {<<m[2], m[3]>> : m \in {x \in legal : x[1] = s}}
          /\ Len(self.neighbors[s]) = Cardinality({x \in legal : x[1] = s})
          /\ Elements(self.reverse_neighbors[s]) =
                {<<m[2], m[1]>> : m \in {x \in legal : x[3] = s}}
          /\ Len(self.reverse_neighbors[s]) = Cardinality({x \in legal : x[3] = s})
    /\ \A q \in illegal :
          <<q[2], _transition(self, q[1], q[2]).val>> \notin Elements(self.neighbors[q[1]])

\* C2: (a, transition(s,a)) is in the forward list of s iff (s,a) is legal,
\* (a, s) is in the reverse list of t iff (s,a) is legal and leads to t; each
\* such pair occurs exactly once and the lists hold nothing else.
C2_Adjacency ==
    \A e \in DOMAIN engines :
        \A legal \in {LegalMoves(engines[e])} : \A illegal \in {IllegalMoves(engines[e])} :
            AdjacencyOK(engines[e], legal, illegal)

C2_Witness ==
    /\ engines[1].rows = 2 /\ engines[1].cols = 2
    /\ engines[1].disallow_diag
    /\ Len(engines[1].neighbors[0]) = 3
    /\ Count(engines[1].reverse_neighbors[3], <<RIGHT, 1>>) = 1
    /\ Count(engines[1].reverse_neighbors[3], <<UP_RIGHT, 0>>) = 0

\* ---------------------------------------------------------------- C3
ExpectedReward(self, reward_dict, euclidean_rewards, s, a) ==
    IF IllegalMove(self, s, a) THEN NegInf
    ELSE LET dest == Candidate(self, s, a)
             base == IF dest \in DOMAIN reward_dict THEN reward_dict[dest]
                     ELSE self.default_reward
         IN  IF Diagonal(a) /\ euclidean_rewards /\ base # 0
             THEN [inf |-> FALSE, n |-> base, sqrt2 |-> TRUE]
             ELSE [inf |-> FALSE, n |-> base, sqrt2 |-> FALSE]

\* C3: for the constructed engine and each of the 8 movement actions,
\* rewards[s,a] is -inf if the move is illegal; otherwise the override of the
\* destination coordinate if there is one, else default_reward, multiplied by
\* sqrt(2) exactly when a is diagonal and euclidean_rewards is set.
C3_Rewards ==
    \A s \in States(engines[1]) : \A a \in Actions \ {ABSORB} :
        Rewards(1)[s][a] =
            ExpectedReward(engines[1], args.reward_dict, args.euclidean_rewards, s, a)

C3_Witness ==
    /\ engines[1].rows = 2 /\ engines[1].cols = 2
    /\ args.euclidean_rewards /\ ~engines[1].disallow_diag
    /\ args.reward_dict = [k \in {<<1, 1>>} |-> 10]
    /\ Rewards(1)[0][UP_RIGHT] = [inf |-> FALSE, n |-> 10, sqrt2 |-> TRUE]
    /\ Rewards(1)[1][RIGHT] = Real(10)
    /\ Rewards(1)[3][DOWN_LEFT] = [inf |-> FALSE, n |-> -1, sqrt2 |-> TRUE]
    /\ Rewards(1)[3][UP] = NegInf
    /\ engines[1].goal # args.goal_state

\* ---------------------------------------------------------------- C4
AbsorbColumn(e) == [s \in States(engines[e]) |-> Rewards(e)[s][ABSORB]]

GoalColumn(self, g) ==
    [s \in States(self) |->
        IF g = Some(s) THEN Real(0)
        ELSE IF self.allow_wait THEN Real(self.default_reward) ELSE NegInf]

\* C4: right after set_goal(g) on an engine, g a state or no goal, whatever
\* came before (set_goal calls with arguments that are not states included),
\* its ABSORB column is 0 at g and default_reward (allow_wait) or -inf
\* (otherwise) at every other state, and a second set_goal(g) leaves that
\* column as it is.
C4_SetGoal ==
    [][\A e \in DOMAIN engines : \A g \in GoalArgs(engines[e].S) :
          SetGoal(e, g) =>
             /\ AbsorbColumn(e)' = GoalColumn(engines[e], g)
             /\ LET again == set_goal(heap', engines'[e], g)
                IN  [s \in States(engines[e]) |->
                        again.heap[again.self.rewards][s][ABSORB]] = AbsorbColumn(e)'
      ]_vars

C4_Witness ==
    /\ engines[1].S >= 2
    /\ args.goal_state # None
    /\ engines[1].goal \in GoalArgs(engines[1].S) \ {None}
    /\ engines[1].goal # args.goal_state
    /\ engines[1].allow_wait /\ engines[1].default_reward # 0
    /\ AbsorbColumn(1) = GoalColumn(engines[1], engines[1].goal)
    /\ AbsorbColumn(1)[args.goal_state[1]] = Real(engines[1].default_reward)

\* ---------------------------------------------------------------- C5
RewardsAfter(e) == heap'[engines'[e].rewards]

OthersKeepRewards(e) ==
    \A e2 \in DOMAIN engines : e2 # e => RewardsAfter(e2) = Rewards(e2)

\* C5: copy() yields an engine whose rewards equal the source's at that moment
\* and leaves the source's as they are; afterwards set_goal / set_all_goals on
\* one engine never changes the rewards of another.
C5_Copy ==
    [][/\ \A e \in DOMAIN engines :
            (Len(engines') = Len(engines) + 1 /\ Copy(e)) =>
                /\ RewardsAfter(Len(engines) + 1) = Rewards(e)
                /\ \A e2 \in DOMAIN engines : RewardsAfter(e2) = Rewards(e2)
       /\ \A e \in DOMAIN engines : \A g \in GoalArgs(engines[e].S) :
            (Len(engines') = Len(engines) /\ engines'[e].goal = g /\ SetGoal(e, g)) =>
                OthersKeepRewards(e)
       /\ \A e \in DOMAIN engines :
            (Len(engines') = Len(engines) /\ SetAllGoals(e)) => OthersKeepRewards(e)
      ]_vars

C5_Witness ==
    /\ Len(engines) = 2
    /\ engines[1].goal # None
    /\ engines[2].goal # None
    /\ engines[1].goal # engines[2].goal
    /\ Rewards(1) # Rewards(2)
    /\ \A s \in States(engines[1]) : \A a \in Actions \ {ABSORB} :
          Rewards(1)[s][a] = Rewards(2)[s][a]
    /\ engines[1].disallow_diag /\ ~engines[2].disallow_diag

\* ---------------------------------------------------------------- C9
MoveRewardsKept(e) ==
    \A s \in States(engines[e]) : \A a \in Actions \ {ABSORB} :
        RewardsAfter(e)[s][a] = Rewards(e)[s][a]

TablesKept(e) ==
    /\ engines'[e].transition_cached = engines[e].transition_cached
    /\ engines'[e].transition_cached_l = engines[e].transition_cached_l
    /\ engines'[e].neighbors = engines[e].neighbors
    /\ engines'[e].reverse_neighbors = engines[e].reverse_neighbors
    /\ engines'[e].state_rewards = engines[e].state_rewards
    /\ \A s \in States(engines[e]) : \A a \in Actions :
          _transition(engines'[e], s, a) = _transition(engines[e], s, a)

\* C9: set_goal (with any argument, one it raises on included) and
\* set_all_goals leave the transition table, both adjacency lists,
\* state_rewards and every non-ABSORB reward as they were; set_goal changes
\* nothing but the ABSORB column and the goal field, set_all_goals nothing but
\* the ABSORB column.
C9_Frame ==
    [][/\ \A e \in DOMAIN engines : \A g \in AnyGoalArgs(engines[e].S) :
            SetGoal(e, g) =>
               /\ TablesKept(e) /\ MoveRewardsKept(e)
               /\ [engines'[e] EXCEPT !.goal = engines[e].goal] = engines[e]
       /\ \A e \in DOMAIN engines :
            SetAllGoals(e) =>
               /\ TablesKept(e) /\ MoveRewardsKept(e)
               /\ engines'[e] = engines[e]
      ]_vars

C9_Witness ==
    /\ engines[1].S >= 2
    /\ engines[1].default_reward # 0
    /\ args.goal_state = None
    /\ engines[1].goal # None
    /\ \A s \in States(engines[1]) : Rewards(1)[s][ABSORB] = Real(0)
    /\ \E s \in States(engines[1]) : \E a \in Actions \ {ABSORB} :
          Rewards(1)[s][a] = Real(10)

\* ---------------------------------------------------------------- C6
\* C6: coor_to_state raises for every (row, col) off the grid and state_to_coor
\* raises for every state index outside [0, rows*cols), negative ones included;
\* neither raises for an in-bounds input.
C6_FailFast ==
    /\ call.op = "coor_to_state" =>
         (call.result.raised <=> ~InGrid(engines[1], call.args))
    /\ call.op = "state_to_coor" =>
         (call.result.raised <=> call.args[1] \notin States(engines[1]))

\* ---------------------------------------------------------------- C7
PositiveInt(x) == x.type = "int" /\ x.val > 0

\* C7: MDP(S, A, rewards, transition) fails whenever rewards.shape is not
\* (S, A), S or A is not a positive integer, or transition is not callable, and
\* otherwise succeeds storing its arguments unchanged.
C7_MDPInit ==
    call.op = "MDP" =>
        LET S == call.args[1]
            A == call.args[2]
            shape == call.args[3]
            is_callable == call.args[4]
            bad == \/ shape # <<S.val, A.val>>
                   \/ ~PositiveInt(S) \/ ~PositiveInt(A)
                   \/ ~is_callable
        IN  /\ call.result.raised <=> bad
            /\ ~call.result.raised =>
                  call.result.val = [S |-> S.val, A |-> A.val, shape |-> shape,
                                     transition |-> is_callable]

\* ---------------------------------------------------------------- C8
\* C8: in an engine with default_reward # 0 (the source or a copy), the ABSORB
\* reward of a state is 0 if and only if that state is the engine's goal field.
C8_OneGoal ==
    \A e \in DOMAIN engines :
        engines[e].default_reward # 0 =>
            \A s \in States(engines[e]) :
                (Rewards(e)[s][ABSORB] = Real(0)) <=> (engines[e].goal = Some(s))

\* ---------------------------------------------------------------- C10
\* C10: every pair (a, s') in the forward list of s, and every pair (a, s) in
\* the reverse list of s', has rewards[s,a] > -inf.
C10_NoIllegalNeighbor ==
    \A e \in DOMAIN engines : \A s \in States(engines[e]) :
        /\ \A i \in DOMAIN engines[e].neighbors[s] :
              Rewards(e)[s][engines[e].neighbors[s][i][1]] # NegInf
        /\ \A i \in DOMAIN engines[e].reverse_neighbors[s] :
              Rewards(e)[engines[e].reverse_neighbors[s][i][2]]
                        [engines[e].reverse_neighbors[s][i][1]] # NegInf
====
